---- MODULE Spec2Model ----
(***************************************************************************)
(* Style state of a scene-graph Shape (charts/scene/shape/shape.ts):       *)
(* the layered default-style tables, the nine change-tracked style         *)
(* attributes, the three restore operations and applyContextAttributes.    *)
(*                                                                         *)
(* Representation of JavaScript values:                                    *)
(*   - string | undefined and the null-able enums are strings, with        *)
(*     "undefined" / "null" standing for the absent value;                 *)
(*   - numbers are integers, NaN is a value of its own (see NaN);          *)
(*     opacity is kept in tenths, so that One stands for 1.0;              *)
(*   - arrays and DropShadow objects are references: an index into a pool  *)
(*     of instances, Undefined standing for undefined.  Two instances are  *)
(*     different references even when their contents agree.                *)
(***************************************************************************)
EXTENDS Integers, Sequences, FiniteSets, TLC

VARIABLES shape, variant, ctx, call

vars == <<shape, variant, ctx, call>>

----------------------------------------------------------------------------
(* Bounds of the model *)

\* number of distinct array instances offered for every dash pattern
DashInstances == 2
\* number of distinct DropShadow objects offered to the shadow setter
ShadowInstances == 1

----------------------------------------------------------------------------
(* JavaScript values and primitive operations *)

NaN == 999
Undefined == 0
One == 10

\* a !== b on numbers
StrictNeq(a, b) == a = NaN \/ b = NaN \/ a # b

\* a < b on numbers
LessThan(a, b) == a # NaN /\ b # NaN /\ a < b

\* Math.max(a, b), Math.min(a, b)
MathMax(a, b) == IF a = NaN \/ b = NaN THEN NaN ELSE IF a >= b THEN a ELSE b
MathMin(a, b) == IF a = NaN \/ b = NaN THEN NaN ELSE IF a <= b THEN a ELSE b

\* truthiness of a number, of a string | undefined, of a null-able enum,
\* of a reference
TruthyNumber(n) == n # 0 /\ n # NaN
TruthyString(s) == s # "undefined"
TruthyEnum(e) == e # "null"
TruthyRef(r) == r # Undefined

----------------------------------------------------------------------------
(* Values offered to the setters *)

Colors == {"undefined", "black", "red"}
StrokeColors == {"undefined", "red"}
Widths == {0, 2, 5}
Offsets == {0, 1}
LineCaps == {"null", "round"}
LineJoins == {"null", "bevel"}
OpacityInputs == {0 - 2, 0, 5, One, 15, NaN}

\* the arrays offered to the lineDash setter: one instance of every content,
\* and the first content in DashInstances instances in all
DashContents == << <<1, 2>>, <<1, 3>>, <<>> >>
DashRefs == 1 .. (Len(DashContents) + DashInstances - 1)
DashValues == {Undefined} \cup DashRefs
DashElems(ref) == IF ref <= Len(DashContents) THEN DashContents[ref] ELSE DashContents[1]

ShadowRefs == 1 .. ShadowInstances
ShadowValues == {Undefined} \cup ShadowRefs
\* the DropShadow object behind a reference
Shadow(ref) == [color |-> "gray", offsetX |-> ref, offsetY |-> ref + 1, blur |-> 5]

----------------------------------------------------------------------------
(* Default-style tables *)

Keys == <<"fill", "stroke", "strokeWidth", "lineDash", "lineDashOffset",
          "lineCap", "lineJoin", "opacity", "shadow">>
KeySet == {Keys[i] : i \in 1 .. Len(Keys)}

\* Shape.defaultStyles: chainObjects({}, {...})
ShapeDefaultStyles ==
    [fill |-> "black", stroke |-> "undefined", strokeWidth |-> 0,
     lineDash |-> Undefined, lineDashOffset |-> 0, lineCap |-> "null",
     lineJoin |-> "null", opacity |-> One, shadow |-> Undefined]

\* Subclasses declaring their own defaults on top of an ancestor's table:
\*   Marker  extends Shape   declares strokeWidth
\*   Badge   extends Marker  re-declares fill (of Shape) and strokeWidth (of Marker),
\*                           and a dash pattern
SubclassStyles ==
    [Marker |-> [parent |-> "Shape", own |-> [strokeWidth |-> 2]],
     Badge  |-> [parent |-> "Marker",
                 own |-> [fill |-> "red", strokeWidth |-> 5, lineDash |-> 1]]]

Variants == {"Shape"} \cup DOMAIN SubclassStyles

\* the object at the root of every chain, the {} given to chainObjects
EmptyObject == "Object"

\* the own properties of a table; Object.getPrototypeOf of a table
OwnStyles(v) ==
    IF v = EmptyObject THEN <<>>
    ELSE IF v = "Shape" THEN ShapeDefaultStyles ELSE SubclassStyles[v].own
GetPrototypeOf(v) == IF v = "Shape" THEN EmptyObject ELSE SubclassStyles[v].parent

\* styles.hasOwnProperty(key)
HasOwnProperty(v, key) == key \in DOMAIN OwnStyles(v)

\* styles[key]: the lookup along the prototype chain
RECURSIVE Lookup(_, _)
Lookup(v, key) ==
    IF HasOwnProperty(v, key) THEN OwnStyles(v)[key] ELSE Lookup(GetPrototypeOf(v), key)

\* Object.getOwnPropertyNames(styles)
GetOwnPropertyNames(v) == SelectSeq(Keys, LAMBDA k : HasOwnProperty(v, k))

\* the keys a for..in loop over a table visits: own ones, then those of the
\* prototype chain that are not shadowed
RECURSIVE ForIn(_)
ForIn(v) ==
    IF v = EmptyObject THEN <<>>
    ELSE GetOwnPropertyNames(v)
         \o SelectSeq(ForIn(GetPrototypeOf(v)), LAMBDA k : ~HasOwnProperty(v, k))

----------------------------------------------------------------------------
(* The attribute setters.  A shape is the record of its private fields      *)
(* (_fill ... _shadow, named after their accessors) and the dirty flag of   *)
(* its Node.                                                                *)

\* set fill without arming the dirty flag
set_fill_keepsClean(s, value) ==
    IF s.fill # value THEN [s EXCEPT !.fill = value] ELSE s

set_fill(s, value) ==
    IF s.fill # value THEN [s EXCEPT !.fill = value, !.dirty = TRUE] ELSE s

set_stroke(s, value) ==
    IF s.stroke # value THEN [s EXCEPT !.stroke = value, !.dirty = TRUE] ELSE s

\* set strokeWidth without comparing with the stored value
set_strokeWidth_unconditional(s, value) ==
    [s EXCEPT !.strokeWidth = value, !.dirty = TRUE]

set_strokeWidth(s, value) ==
    IF StrictNeq(s.strokeWidth, value)
    THEN [s EXCEPT !.strokeWidth = value, !.dirty = TRUE] ELSE s

\* the loop of the lineDash setter over two arrays of the same length n:
\* identical stays true unless some oldValue[i] !== value[i]
RECURSIVE Identical(_, _, _, _)
Identical(oldValue, value, i, n) ==
    IF i > n THEN TRUE
    ELSE IF StrictNeq(oldValue[i], value[i]) THEN FALSE
    ELSE Identical(oldValue, value, i + 1, n)

\* set lineDash comparing the references alone
set_lineDash_byReference(s, value) ==
    IF s.lineDash # value THEN [s EXCEPT !.lineDash = value, !.dirty = TRUE] ELSE s

set_lineDash(s, value) ==
    LET oldValue == s.lineDash IN
    IF oldValue # value
    THEN IF /\ TruthyRef(oldValue) /\ TruthyRef(value)
            /\ Len(DashElems(oldValue)) = Len(DashElems(value))
            /\ Identical(DashElems(oldValue), DashElems(value), 1, Len(DashElems(value)))
         THEN s
         ELSE [s EXCEPT !.lineDash = value, !.dirty = TRUE]
    ELSE s

set_lineDashOffset(s, value) ==
    IF StrictNeq(s.lineDashOffset, value)
    THEN [s EXCEPT !.lineDashOffset = value, !.dirty = TRUE] ELSE s

set_lineCap(s, value) ==
    IF s.lineCap # value THEN [s EXCEPT !.lineCap = value, !.dirty = TRUE] ELSE s

set_lineJoin(s, value) ==
    IF s.lineJoin # value THEN [s EXCEPT !.lineJoin = value, !.dirty = TRUE] ELSE s

set_opacity(s, input) ==
    LET value == MathMin(One, MathMax(0, input)) IN
    IF StrictNeq(s.opacity, value)
    THEN [s EXCEPT !.opacity = value, !.dirty = TRUE] ELSE s

set_shadow(s, value) ==
    IF s.shadow # value THEN [s EXCEPT !.shadow = value, !.dirty = TRUE] ELSE s

\* (this as any)[key] = value
SetProperty(s, key, value) ==
    CASE key = "fill" -> set_fill(s, value)
      [] key = "stroke" -> set_stroke(s, value)
      [] key = "strokeWidth" -> set_strokeWidth(s, value)
      [] key = "lineDash" -> set_lineDash(s, value)
      [] key = "lineDashOffset" -> set_lineDashOffset(s, value)
      [] key = "lineCap" -> set_lineCap(s, value)
      [] key = "lineJoin" -> set_lineJoin(s, value)
      [] key = "opacity" -> set_opacity(s, value)
      [] key = "shadow" -> set_shadow(s, value)

\* the values a caller may hand to the setter of a key
InputsOf(key) ==
    CASE key = "fill" -> Colors
      [] key = "stroke" -> StrokeColors
      [] key = "strokeWidth" -> Widths
      [] key = "lineDash" -> DashValues
      [] key = "lineDashOffset" -> Offsets
      [] key = "lineCap" -> LineCaps
      [] key = "lineJoin" -> LineJoins
      [] key = "opacity" -> OpacityInputs
      [] key = "shadow" -> ShadowValues

----------------------------------------------------------------------------
(* The restore operations *)

\* for (i = from; i <= Len(keys); i++) this[keys[i]] = styles[keys[i]],
\* restricted to the keys that pass the filter of the loop body
RECURSIVE AssignDefaults(_, _, _, _)
AssignDefaults(s, v, keys, i) ==
    IF i > Len(keys) THEN s
    ELSE AssignDefaults(SetProperty(s, keys[i], Lookup(v, keys[i])), v, keys, i + 1)

\* restoreOwnStyles looping with for..in, over inherited keys too
restoreOwnStyles_forIn(s, v) == AssignDefaults(s, v, ForIn(v), 1)

restoreOwnStyles(s, v) == AssignDefaults(s, v, GetOwnPropertyNames(v), 1)

\* restoreAllStyles looping over the own property names alone
restoreAllStyles_ownOnly(s, v) == AssignDefaults(s, v, GetOwnPropertyNames(v), 1)

restoreAllStyles(s, v) == AssignDefaults(s, v, ForIn(v), 1)

\* the condition of the loop body of restoreOverriddenStyles
IsOverridden(v, property) ==
    HasOwnProperty(v, property) /\ HasOwnProperty(GetPrototypeOf(v), property)

restoreOverriddenStyles(s, v) ==
    AssignDefaults(s, v, SelectSeq(ForIn(v), LAMBDA p : IsOverridden(v, p)), 1)

----------------------------------------------------------------------------
(* applyContextAttributes: the assignments made to the context, in order *)

Write(cond, property, value) == IF cond THEN << <<property, value>> >> ELSE <<>>

StrokeWrites(s) ==
    Write(TRUE, "strokeStyle", s.stroke)
    \o Write(TRUE, "lineWidth", s.strokeWidth)
    \o Write(TruthyRef(s.lineDash), "setLineDash", s.lineDash)
    \o Write(TruthyNumber(s.lineDashOffset), "lineDashOffset", s.lineDashOffset)
    \o Write(TruthyEnum(s.lineCap), "lineCap", s.lineCap)
    \o Write(TruthyEnum(s.lineJoin), "lineJoin", s.lineJoin)

ShadowWrites(s) ==
    LET shadow == Shadow(s.shadow) IN
    Write(TRUE, "shadowColor", shadow.color)
    \o Write(TRUE, "shadowOffsetX", shadow.offsetX)
    \o Write(TRUE, "shadowOffsetY", shadow.offsetY)
    \o Write(TRUE, "shadowBlur", shadow.blur)

\* applyContextAttributes assigning lineWidth outside the stroke branch
applyContextAttributes_widthAlways(s) ==
    Write(TruthyString(s.fill), "fillStyle", s.fill)
    \o (IF TruthyString(s.stroke) THEN StrokeWrites(s)
        ELSE Write(TRUE, "lineWidth", s.strokeWidth))
    \o Write(LessThan(s.opacity, One), "globalAlpha", s.opacity)
    \o (IF TruthyRef(s.shadow) THEN ShadowWrites(s) ELSE <<>>)

\* applyContextAttributes assigning globalAlpha before the stroke
applyContextAttributes_alphaFirst(s) ==
    Write(TruthyString(s.fill), "fillStyle", s.fill)
    \o Write(LessThan(s.opacity, One), "globalAlpha", s.opacity)
    \o (IF TruthyString(s.stroke) THEN StrokeWrites(s) ELSE <<>>)
    \o (IF TruthyRef(s.shadow) THEN ShadowWrites(s) ELSE <<>>)

applyContextAttributes(s) ==
    Write(TruthyString(s.fill), "fillStyle", s.fill)
    \o (IF TruthyString(s.stroke) THEN StrokeWrites(s) ELSE <<>>)
    \o Write(LessThan(s.opacity, One), "globalAlpha", s.opacity)
    \o (IF TruthyRef(s.shadow) THEN ShadowWrites(s) ELSE <<>>)

----------------------------------------------------------------------------
(* The state machine: one shape, its class, the context it was last applied *)
(* to, and the last call made (its arguments too).                          *)

\* the field initializers of Shape, run by the constructor of every variant;
\* the dirty flag of a new Node is false
NewShape ==
    [fill |-> ShapeDefaultStyles.fill,
     stroke |-> ShapeDefaultStyles.stroke,
     strokeWidth |-> ShapeDefaultStyles.strokeWidth,
     lineDash |-> ShapeDefaultStyles.lineDash,
     lineDashOffset |-> ShapeDefaultStyles.lineDashOffset,
     lineCap |-> ShapeDefaultStyles.lineCap,
     lineJoin |-> ShapeDefaultStyles.lineJoin,
     opacity |-> ShapeDefaultStyles.opacity,
     shadow |-> ShapeDefaultStyles.shadow,
     dirty |-> FALSE]

Init ==
    /\ variant \in Variants
    /\ shape = NewShape
    /\ ctx = <<>>
    /\ call = [op |-> "new"]

\* new X(): a fresh instance of some variant replaces the shape
Construct ==
    /\ variant' \in Variants
    /\ shape' = NewShape
    /\ ctx' = <<>>
    /\ call' = [op |-> "new"]

\* a call of the setter of key with some value
Set(key) ==
    \E value \in InputsOf(key) :
        /\ shape' = SetProperty(shape, key, value)
        /\ ctx' = <<>>
        /\ call' = [op |-> "set", key |-> key, value |-> value]
        /\ UNCHANGED variant

SetFill == Set("fill")
SetStroke == Set("stroke")
SetStrokeWidth == Set("strokeWidth")
SetLineDash == Set("lineDash")
SetLineDashOffset == Set("lineDashOffset")
SetLineCap == Set("lineCap")
SetLineJoin == Set("lineJoin")
SetOpacity == Set("opacity")
SetShadow == Set("shadow")

RestoreOwnStyles ==
    /\ shape' = restoreOwnStyles(shape, variant)
    /\ ctx' = <<>>
    /\ call' = [op |-> "restoreOwnStyles"]
    /\ UNCHANGED variant

RestoreAllStyles ==
    /\ shape' = restoreAllStyles(shape, variant)
    /\ ctx' = <<>>
    /\ call' = [op |-> "restoreAllStyles"]
    /\ UNCHANGED variant

RestoreOverriddenStyles ==
    /\ shape' = restoreOverriddenStyles(shape, variant)
    /\ ctx' = <<>>
    /\ call' = [op |-> "restoreOverriddenStyles"]
    /\ UNCHANGED variant

\* applyContextAttributes(ctx) on a fresh context
ApplyContextAttributes ==
    /\ ctx' = applyContextAttributes(shape)
    /\ call' = [op |-> "applyContextAttributes"]
    /\ UNCHANGED <<shape, variant>>

\* the render pipeline clears the dirty flag after a render pass
Rendered ==
    /\ shape.dirty
    /\ shape' = [shape EXCEPT !.dirty = FALSE]
    /\ ctx' = <<>>
    /\ call' = [op |-> "rendered"]
    /\ UNCHANGED variant

Next ==
    \/ Construct
    \/ SetFill \/ SetStroke \/ SetStrokeWidth \/ SetLineDash \/ SetLineDashOffset
    \/ SetLineCap \/ SetLineJoin \/ SetOpacity \/ SetShadow
    \/ RestoreOwnStyles \/ RestoreAllStyles \/ RestoreOverriddenStyles
    \/ ApplyContextAttributes
    \/ Rendered

Spec == Init /\ [][Next]_vars

----------------------------------------------------------------------------
(* Vocabulary of the properties *)

IsSet(key) == call.op = "set" /\ call.key = key

\* the elements of a sequence
Range(seq) == {seq[i] : i \in 1 .. Len(seq)}

\* the equality rule of an attribute, as the specification words it:
\* deep equality for lineDash, identity or value equality for the others
\* (a number that is NaN equals nothing)
SameDash(a, b) ==
    \/ a = Undefined /\ b = Undefined
    \/ /\ a # Undefined /\ b # Undefined
       /\ Len(DashElems(a)) = Len(DashElems(b))
       /\ \A i \in 1 .. Len(DashElems(a)) : DashElems(a)[i] = DashElems(b)[i]

SameValue(key, a, b) ==
    IF key = "lineDash" THEN SameDash(a, b)
    ELSE IF key \in {"strokeWidth", "lineDashOffset", "opacity"}
         THEN a # NaN /\ b # NaN /\ a = b
         ELSE a = b

\* min(1, max(0, v)) of a number
Clamped(v) == IF v = NaN THEN NaN ELSE IF v < 0 THEN 0 ELSE IF v > One THEN One ELSE v

\* the value the setter of key compares and stores for the input v
Incoming(key, v) == IF key = "opacity" THEN Clamped(v) ELSE v

\* the effective default table of a variant: the tables from the root to the
\* variant merged, the most-derived entry winning
RECURSIVE Resolve(_)
Resolve(v) ==
    IF v = EmptyObject THEN <<>>
    ELSE LET inherited == Resolve(GetPrototypeOf(v))
             own == OwnStyles(v)
         IN [k \in DOMAIN inherited \cup DOMAIN own |->
                IF k \in DOMAIN own THEN own[k] ELSE inherited[k]]

\* the tables of the strict ancestors of a variant
RECURSIVE Ancestors(_)
Ancestors(v) ==
    IF v = EmptyObject THEN {}
    ELSE {GetPrototypeOf(v)} \cup Ancestors(GetPrototypeOf(v))

Restores == {"restoreOwnStyles", "restoreAllStyles", "restoreOverriddenStyles"}

----------------------------------------------------------------------------
(* C1 *)

\* C1: a setter call stores the new value and sets dirty exactly when the
\* new value differs from the stored one under the equality rule of the
\* attribute; otherwise it changes neither the stored values nor the dirty
\* flag, whatever the flag was.
C1_SetterContract ==
    [][call'.op = "set" =>
         LET key == call'.key
             value == Incoming(key, call'.value)
         IN IF SameValue(key, shape[key], value)
            THEN shape' = shape
            ELSE shape' = [shape EXCEPT ![key] = value, !.dirty = TRUE]]_vars

\* a setter was called with the stored value while the flag was clear, and
\* the flag is still clear
C1_Witness ==
    /\ IsSet("fill") /\ call.value = "red"
    /\ shape.fill = "red" /\ ~shape.dirty

----------------------------------------------------------------------------
(* C2 *)

\* C2: the lineDash setter leaves the shape alone exactly when old and new
\* value are both unset, or both are sequences of the same length with
\* pairwise equal elements (different instances included); in every other
\* case it stores the new value and sets dirty.
C2_LineDashDeepEquality ==
    [][(call'.op = "set" /\ call'.key = "lineDash") =>
         LET old == shape.lineDash
             new == call'.value
             unchanged ==
                 \/ old = Undefined /\ new = Undefined
                 \/ /\ old \in DashRefs /\ new \in DashRefs
                    /\ DashElems(old) = DashElems(new)
         IN /\ unchanged => shape' = shape
            /\ ~unchanged => /\ shape'.lineDash = new
                             /\ shape'.dirty
                             /\ \A k \in KeySet \ {"lineDash"} : shape'[k] = shape[k]]_vars

\* the setter was called with another instance of the stored pattern and
\* did nothing: the first instance is still stored and the flag is clear
C2_Witness ==
    /\ IsSet("lineDash") /\ call.value # shape.lineDash
    /\ shape.lineDash \in DashRefs /\ call.value \in DashRefs
    /\ DashElems(call.value) = DashElems(shape.lineDash)
    /\ Len(DashElems(call.value)) > 0
    /\ ~shape.dirty

----------------------------------------------------------------------------
(* C3 *)

\* the last call assigned, through a setter, a value that differs from the
\* stored one (a restore operation assigns through the setters)
RealChange ==
    \/ /\ call'.op = "set"
       /\ ~SameValue(call'.key, shape[call'.key], Incoming(call'.key, call'.value))
    \/ /\ call'.op \in Restores
       /\ \E k \in KeySet : /\ shape'[k] # shape[k]
                             /\ SameValue(k, shape'[k], Resolve(variant)[k])

\* C3: once the pipeline has cleared dirty, setter calls with a value equal
\* to the stored one leave it false; dirty becomes true only at a setter
\* call whose value differs from the stored one, and only the pipeline (or a
\* new instance) makes it false.
C3_DirtyOncePerChange ==
    [][/\ (call'.op = "set" /\ ~shape.dirty /\
             SameValue(call'.key, shape[call'.key], Incoming(call'.key, call'.value)))
           => ~shape'.dirty
       /\ (~shape.dirty /\ shape'.dirty) => RealChange
       /\ (shape.dirty /\ ~shape'.dirty) => call'.op \in {"rendered", "new"}]_vars

\* strokeWidth was changed to 5, the pipeline cleared the flag, and a further
\* call with 5 left it clear
C3_Witness ==
    /\ IsSet("strokeWidth") /\ call.value = 5
    /\ shape.strokeWidth = 5 /\ ~shape.dirty

----------------------------------------------------------------------------
(* C4 *)

\* C4: the opacity setter stores the clamped input, min(1, max(0, v)), for
\* every input v, so the stored opacity lies within [0, 1] after any
\* sequence of calls.
C4_OpacityWithinUnitInterval ==
    /\ IsSet("opacity") => shape.opacity = Clamped(call.value)
    /\ shape.opacity # NaN /\ 0 <= shape.opacity /\ shape.opacity <= One

----------------------------------------------------------------------------
(* C5 *)

\* isOverride(variant, name): the name is declared by the variant itself
\* and by some ancestor, at any depth
IsOverride(v, name) ==
    HasOwnProperty(v, name) /\ \E a \in Ancestors(v) : HasOwnProperty(a, name)

\* C5: restoreOverriddenStyles sets every attribute declared both by the
\* variant and by some ancestor (at any depth) to the variant's own default
\* and leaves every other attribute as it is; on the root it changes nothing.
C5_RestoreOverriddenAnyDepth ==
    [][call'.op = "restoreOverriddenStyles" =>
         \A k \in KeySet :
            IF IsOverride(variant, k)
            THEN SameValue(k, shape'[k], OwnStyles(variant)[k])
            ELSE shape'[k] = shape[k]]_vars

----------------------------------------------------------------------------
(* C6 *)

\* C6: a newly constructed instance of any variant holds the effective
\* defaults of that variant, so applyContextAttributes writes what those
\* defaults imply (fillStyle 'black' alone for the root defaults).
C6_ConstructedWithVariantDefaults ==
    call.op = "new" =>
        /\ \A k \in KeySet : SameValue(k, shape[k], Resolve(variant)[k])
        /\ applyContextAttributes(shape) = applyContextAttributes(Resolve(variant))
        /\ variant = "Shape" =>
               applyContextAttributes(shape) = << <<"fillStyle", "black">> >>

----------------------------------------------------------------------------
(* C7 *)

\* C7: restoreOwnStyles sets exactly the attributes declared in the own
\* table of the runtime variant to the values of that table, through the
\* setters (dirty is set only if some value changes), and leaves the
\* attributes that are only inherited as they are.
C7_RestoreOwnStyles ==
    [][call'.op = "restoreOwnStyles" =>
         /\ \A k \in KeySet :
               IF HasOwnProperty(variant, k)
               THEN SameValue(k, shape'[k], OwnStyles(variant)[k])
               ELSE shape'[k] = shape[k]
         /\ shape'.dirty =
               (shape.dirty \/ \E k \in DOMAIN OwnStyles(variant) :
                                  ~SameValue(k, shape[k], OwnStyles(variant)[k]))]_vars

\* a Marker (which declares strokeWidth = 2 alone) with a customized fill
\* after restoreOwnStyles: the fill is kept, strokeWidth is 2
C7_Witness ==
    /\ call.op = "restoreOwnStyles" /\ variant = "Marker"
    /\ shape.fill = "red" /\ shape.strokeWidth = 2 /\ shape.dirty

----------------------------------------------------------------------------
(* C8 *)

\* C8: after restoreAllStyles every attribute of the effective default table
\* of the runtime variant (most-derived entry winning) equals its effective
\* default, and a second restoreAllStyles changes no attribute and does not
\* set dirty.
C8_RestoreAllStyles ==
    call.op = "restoreAllStyles" =>
        /\ \A k \in DOMAIN Resolve(variant) : SameValue(k, shape[k], Resolve(variant)[k])
        /\ restoreAllStyles(shape, variant) = shape
        /\ restoreAllStyles([shape EXCEPT !.dirty = FALSE], variant).dirty = FALSE

\* a Badge (fill and strokeWidth re-declared over Shape and Marker) after
\* restoreAllStyles changed its customized attributes
C8_Witness ==
    /\ call.op = "restoreAllStyles" /\ variant = "Badge"
    /\ shape.fill = "red" /\ shape.strokeWidth = 5 /\ shape.opacity = One
    /\ shape.stroke = "undefined" /\ shape.dirty

----------------------------------------------------------------------------
(* C9 *)

StrokeProperties == {"lineWidth", "setLineDash", "lineDashOffset", "lineCap", "lineJoin"}

\* the context received the assignment of value to property
Wrote(property, value) ==
    \E i \in 1 .. Len(ctx) : ctx[i][1] = property /\ ctx[i][2] = value

\* C9: applyContextAttributes writes the stroke-dependent properties only
\* when a stroke paint is set; with a stroke paint set it writes the paint
\* and the line width, a width of 0 included.
C9_StrokeAttributesNeedStroke ==
    call.op = "applyContextAttributes" =>
        /\ shape.stroke = "undefined" =>
              \A i \in 1 .. Len(ctx) : ctx[i][1] \notin StrokeProperties \cup {"strokeStyle"}
        /\ shape.stroke # "undefined" =>
              Wrote("strokeStyle", shape.stroke) /\ Wrote("lineWidth", shape.strokeWidth)

\* applied with no stroke paint but a width of 5, a dash pattern, an offset,
\* a cap and a join
C9_Witness ==
    /\ call.op = "applyContextAttributes"
    /\ shape.stroke = "undefined" /\ shape.strokeWidth = 5
    /\ shape.lineDash # Undefined /\ shape.lineDashOffset = 1
    /\ shape.lineCap = "round" /\ shape.lineJoin = "bevel"

----------------------------------------------------------------------------
(* C10 *)

WriteOrder == <<"fillStyle", "strokeStyle", "lineWidth", "setLineDash",
                "lineDashOffset", "lineCap", "lineJoin", "globalAlpha",
                "shadowColor", "shadowOffsetX", "shadowOffsetY", "shadowBlur">>

Position(property) == CHOOSE i \in 1 .. Len(WriteOrder) : WriteOrder[i] = property

\* C10: the assignments of applyContextAttributes come in the order of
\* WriteOrder, each at most once; the fill paint is written whenever fill is
\* set; the call changes no attribute and not the dirty flag.
C10_WriteOrder ==
    [][call'.op = "applyContextAttributes" =>
         /\ \A i \in 1 .. Len(ctx') : ctx'[i][1] \in Range(WriteOrder)
         /\ \A i, j \in 1 .. Len(ctx') :
               i < j => Position(ctx'[i][1]) < Position(ctx'[j][1])
         /\ shape.fill # "undefined" =>
               ctx'[1][1] = "fillStyle" /\ ctx'[1][2] = shape.fill
         /\ shape' = shape]_vars

\* applied with every attribute set: all twelve assignments were made
C10_Witness ==
    /\ call.op = "applyContextAttributes"
    /\ Len(ctx) = Len(WriteOrder)
    /\ shape.dirty

====
